---- MODULE Spec2Model ----
(***************************************************************************)
(* beatspine: assignment of dated photos to beats (core.py) and the        *)
(* differential synchronisation of a timeline project with DaVinci         *)
(* Resolve (resolve_sync.py).                                              *)
(*                                                                         *)
(* Dates are whole seconds. Positions on the host timeline are counted in  *)
(* half frames, so that the half-frame tolerance of the code is exact.     *)
(***************************************************************************)
EXTENDS Integers, Sequences, FiniteSets, TLC

\* ------------------------------------------------------------------ bounds
MaxPhotos == 3
MaxBeats == 3
MaxOffset == 1
MaxEndOffset == 3
MaxAnchor == 2
MaxSessions == 2
MaxCalls == 2
MaxHostItems == 1
MaxHostMarkers == 1
MaxFrame == 1
MaxTimelineMarkers == 2
MaxSearchBeats == 6
MaxDuration == 5
MaxBeatDuration == 2
MaxGap == 1

\* The dates a photo may carry, and the explicit date range of the command line.
Dates == {0, 1, 60}
DateRangeOverride == [start_date |-> 1, end_date |-> 60]

\* ------------------------------------------------------ values of the code
NoAnchor == -1
NoCluster == -1
SecondsPerMinute == 60
MsPerSecond == 1000

TimeUnits == {"second", "minute"}

\* TimeGap.none(), "1-minute", "1-minute-same"
TimeGapNone == [amount |-> 0, unit |-> "second", same_period_mode |-> FALSE]
TimeGaps ==
  { TimeGapNone,
    [amount |-> 1, unit |-> "minute", same_period_mode |-> FALSE],
    [amount |-> 1, unit |-> "minute", same_period_mode |-> TRUE] }

Min(a, b) == IF a <= b THEN a ELSE b
Max(a, b) == IF a >= b THEN a ELSE b
Abs(a) == IF a < 0 THEN 0 - a ELSE a

\* ----------------------------------------------------------------- state
VARIABLES
  \* inputs of map_photos_to_beats
  photos, beats_len, start_offset, end_offset, start_date, end_date, time_gap,
  \* the run of map_photos_to_beats
  apc, clusters, work, beat_occupied, placements, warnings, result,
  \* the number of the call of map_photos_to_beats on these inputs, and what
  \* the call before it returned
  call, previous_result,
  \* DaVinci Resolve: the project of the target's name and its timeline
  host, host_at_start,
  \* the run of ResolveSync.sync_project
  pc, session, force, recreate, dry_run,
  stored_state, current_items, changes, conflicts, media_items,
  answer, calls, report, outcome, previous_outcome,
  \* create_timeline_project: the soundtrack's duration, the beat duration 60 / bpm
  \* and the gap, and the TimelineProject it returns
  soundtrack, timeline_project

assignInputs ==
  <<photos, beats_len, start_offset, end_offset, start_date, end_date, time_gap,
    call, previous_result>>
assignVars ==
  <<photos, beats_len, start_offset, end_offset, start_date, end_date, time_gap,
    call, previous_result,
    apc, clusters, work, beat_occupied, placements, warnings, result>>
flags == <<force, recreate, dry_run>>
analysis == <<stored_state, current_items, changes, conflicts>>
syncVars ==
  <<host, host_at_start, pc, session, force, recreate, dry_run,
    stored_state, current_items, changes, conflicts, media_items,
    answer, calls, report, outcome, previous_outcome>>

buildVars == <<soundtrack, timeline_project>>

vars == <<assignVars, syncVars, buildVars>>

\* -------------------------------------------------------------- clustering
UnitSeconds(unit) == IF unit = "second" THEN 1 ELSE SecondsPerMinute

calculate_time_delta(date1, date2, unit) == Abs(date2 - date1) \div UnitSeconds(unit)

normalize_to_period_start(date, unit) == date - (date % UnitSeconds(unit))

RECURSIVE SeqMin(_)
SeqMin(s) == IF Len(s) = 1 THEN Head(s) ELSE Min(Head(s), SeqMin(Tail(s)))
RECURSIVE SeqMax(_)
SeqMax(s) == IF Len(s) = 1 THEN Head(s) ELSE Max(Head(s), SeqMax(Tail(s)))

PhotoDates(ps) == [i \in 1..Len(ps) |-> ps[i].date]

PhotoCluster(ps) ==
  [photos |-> ps, start_date |-> SeqMin(PhotoDates(ps)), end_date |-> SeqMax(PhotoDates(ps))]

\* list.sort() of dates: stable insertion into ascending order
RECURSIVE InsertDate(_, _)
InsertDate(s, d) ==
  IF s = <<>> THEN <<d>>
  ELSE IF d < Head(s) THEN <<d>> \o s
  ELSE <<Head(s)>> \o InsertDate(Tail(s), d)
RECURSIVE SortDates(_)
SortDates(s) == IF s = <<>> THEN <<>> ELSE InsertDate(SortDates(SubSeq(s, 1, Len(s) - 1)), s[Len(s)])

representative_date(cluster) ==
  LET dates == SortDates(PhotoDates(cluster.photos))
  IN dates[(Len(dates) \div 2) + 1]

\* dict keyed by period start, in order of first insertion
RECURSIVE PeriodGroups(_, _, _)
PeriodGroups(ps, unit, groups) ==
  IF ps = <<>> THEN groups
  ELSE LET photo == Head(ps)
           period_start == normalize_to_period_start(photo.date, unit)
           hit == {g \in 1..Len(groups) : groups[g].key = period_start}
       IN IF hit = {}
          THEN PeriodGroups(Tail(ps), unit,
                 Append(groups, [key |-> period_start, photos |-> <<photo>>]))
          ELSE LET g == CHOOSE x \in hit : TRUE
               IN PeriodGroups(Tail(ps), unit,
                    [groups EXCEPT ![g].photos = Append(@, photo)])

\* sorted(clusters, key=start_date): stable
RECURSIVE InsertCluster(_, _)
InsertCluster(s, c) ==
  IF s = <<>> THEN <<c>>
  ELSE IF c.start_date < Head(s).start_date THEN <<c>> \o s
  ELSE <<Head(s)>> \o InsertCluster(Tail(s), c)
RECURSIVE SortClusters(_)
SortClusters(s) ==
  IF s = <<>> THEN <<>> ELSE InsertCluster(SortClusters(SubSeq(s, 1, Len(s) - 1)), s[Len(s)])

cluster_photos_by_same_period(ps, gap) ==
  LET groups == PeriodGroups(ps, gap.unit, <<>>)
  IN SortClusters([g \in 1..Len(groups) |-> PhotoCluster(groups[g].photos)])

RECURSIVE MinimumGapWalk_FromClusterStart(_, _, _, _, _)
MinimumGapWalk_FromClusterStart(ps, i, gap, current, done) ==
  IF i > Len(ps) THEN Append(done, PhotoCluster(current))
  ELSE IF calculate_time_delta(current[1].date, ps[i].date, gap.unit) >= gap.amount
       THEN MinimumGapWalk_FromClusterStart(ps, i + 1, gap, <<ps[i]>>,
              Append(done, PhotoCluster(current)))
       ELSE MinimumGapWalk_FromClusterStart(ps, i + 1, gap, Append(current, ps[i]), done)
RECURSIVE MinimumGapWalk(_, _, _, _, _)
MinimumGapWalk(ps, i, gap, current, done) ==
  IF i > Len(ps) THEN Append(done, PhotoCluster(current))
  ELSE IF calculate_time_delta(ps[i - 1].date, ps[i].date, gap.unit) >= gap.amount
       THEN MinimumGapWalk(ps, i + 1, gap, <<ps[i]>>, Append(done, PhotoCluster(current)))
       ELSE MinimumGapWalk(ps, i + 1, gap, Append(current, ps[i]), done)

cluster_photos_by_minimum_gap_DropLast(ps, gap) ==
  IF ps = <<>> THEN <<>>
  ELSE LET all == MinimumGapWalk(ps, 2, gap, <<ps[1]>>, <<>>)
       IN SubSeq(all, 1, Len(all) - 1)
cluster_photos_by_minimum_gap(ps, gap) ==
  IF ps = <<>> THEN <<>> ELSE MinimumGapWalk(ps, 2, gap, <<ps[1]>>, <<>>)

cluster_photos_by_time_gap(ps, gap) ==
  IF gap.amount = 0 THEN [i \in 1..Len(ps) |-> PhotoCluster(<<ps[i]>>)]
  ELSE IF gap.same_period_mode THEN cluster_photos_by_same_period(ps, gap)
  ELSE cluster_photos_by_minimum_gap(ps, gap)

\* --------------------------------------------------------- slot assignment
\* len(beats[start_offset : len(beats) - end_offset]), with Python's slice rules
SliceStop(len, stop) == IF stop < 0 THEN Max(len + stop, 0) ELSE Min(stop, len)
SliceStart(len, start) == Min(start, len)
num_effective_beats ==
  Max(SliceStop(beats_len, beats_len - end_offset) - SliceStart(beats_len, start_offset), 0)

\* start_offset <= beat_index < len(beats) - end_offset
InEffectiveRange(beat_index) ==
  start_offset <= beat_index /\ beat_index < beats_len - end_offset

\* beat_index = anchor - 1
beat_index_of_SameNumber(anchor) == anchor
beat_index_of(anchor) == anchor - 1

\* an anchor is honoured when its beat is inside the effective range and free
AnchorAccepted_IgnoreOccupied(photo, occupied) ==
  /\ photo.anchor # NoAnchor
  /\ InEffectiveRange(beat_index_of(photo.anchor))
AnchorAccepted(photo, occupied) ==
  /\ photo.anchor # NoAnchor
  /\ InEffectiveRange(beat_index_of(photo.anchor))
  /\ ~occupied[beat_index_of(photo.anchor)]

\* the capacity check made before the first pass
CapacityExceeded_OffByOne(required) == required > num_effective_beats + 1
CapacityExceeded(required) == required > num_effective_beats

InDateRange(photo) == start_date <= photo.date /\ photo.date <= end_date

timespan_CountingBothEnds == end_date - start_date + 1
timespan == end_date - start_date

\* int(position * (num_effective_beats - 1)), position = (date - start_date) / timespan
preferred_beat(date) ==
  start_offset
    + Min(((date - start_date) * (num_effective_beats - 1)) \div timespan,
          num_effective_beats - 1)

SearchCandidate_OtherSideOnRepeat(preferred, search_radius) ==
  IF (search_radius % 2 = 1) = (call = 1)
  THEN preferred - ((search_radius + 1) \div 2)
  ELSE preferred + ((search_radius + 1) \div 2)
SearchCandidate_RightFirst(preferred, search_radius) ==
  IF search_radius % 2 = 1
  THEN preferred + ((search_radius \div 2) + 1)
  ELSE preferred - (search_radius \div 2)
SearchCandidate(preferred, search_radius) ==
  IF search_radius % 2 = 1
  THEN preferred - ((search_radius \div 2) + 1)
  ELSE preferred + (search_radius \div 2)

\* the while loop: the slot the search ends on (occupied when it found none)
RECURSIVE SearchFrom(_, _, _)
SearchFrom(occupied, preferred, search_radius) ==
  IF occupied[preferred] /\ search_radius < num_effective_beats
  THEN LET candidate == SearchCandidate(preferred, search_radius + 1)
       IN IF InEffectiveRange(candidate) /\ ~occupied[candidate]
          THEN candidate
          ELSE SearchFrom(occupied, preferred, search_radius + 1)
  ELSE preferred

find_nearest_beat(occupied, preferred) == SearchFrom(occupied, preferred, 0)

PhotoPlacement(photo, beat_index, is_anchored, cluster_id) ==
  [path |-> photo.path, beat_index |-> beat_index, date |-> photo.date,
   is_anchored |-> is_anchored, cluster_id |-> cluster_id]

PlacedPaths(ps) == {ps[i].path : i \in 1..Len(ps)}
AnchoredPaths(ps) == {ps[i].path : i \in {j \in 1..Len(ps) : ps[j].is_anchored}}

\* sorted(placements, key=...): stable; by_date adds the date as second key
PlacementBefore(p, q, by_date) ==
  \/ p.beat_index < q.beat_index
  \/ by_date /\ p.beat_index = q.beat_index /\ p.date < q.date
RECURSIVE InsertPlacement(_, _, _)
InsertPlacement(s, p, by_date) ==
  IF s = <<>> THEN <<p>>
  ELSE IF PlacementBefore(p, Head(s), by_date) THEN <<p>> \o s
  ELSE <<Head(s)>> \o InsertPlacement(Tail(s), p, by_date)
RECURSIVE SortPlacements(_, _)
SortPlacements(s, by_date) ==
  IF s = <<>> THEN <<>>
  ELSE InsertPlacement(SortPlacements(SubSeq(s, 1, Len(s) - 1), by_date), s[Len(s)], by_date)

\* (cluster_idx, photo) in the order of the two nested loops of the first pass
RECURSIVE ClusterPhotoPairs(_, _)
ClusterPhotoPairs(cs, cluster_idx) ==
  IF cluster_idx > Len(cs) THEN <<>>
  ELSE [i \in 1..Len(cs[cluster_idx].photos) |->
          [cluster_idx |-> cluster_idx - 1, photo |-> cs[cluster_idx].photos[i]]]
       \o ClusterPhotoPairs(cs, cluster_idx + 1)

\* ------------------------------------------------------------------ inputs
Photo(path, date, anchor) == [path |-> path, date |-> date, anchor |-> anchor]
Anchors == {NoAnchor} \cup (1..MaxAnchor)

\* load_photos: at least one photo, sorted by date
PhotoLists ==
  UNION { { [i \in 1..n |-> Photo(i, d[i], a[i])] :
              d \in {x \in [1..n -> Dates] : \A i \in 1..(n - 1) : x[i] <= x[i + 1]},
              a \in [1..n -> Anchors] } : n \in 1..MaxPhotos }

\* ----------------------------------------------- create_timeline_project
\* get_audio_duration(soundtrack_path), 60 / bpm and gap_sec, in whole seconds
Soundtracks ==
  {s \in [duration_sec : 1..MaxDuration, beat_duration : 1..MaxBeatDuration,
          gap_sec : 0..MaxGap] :
     s.duration_sec \div s.beat_duration + 1 <= MaxBeats}

\* num_beats = int(duration_sec / beat_duration) + 1
num_beats(s) == s.duration_sec \div s.beat_duration + 1
\* beat_times = [Decimal(i) * beat_duration for i in range(num_beats)]
beat_times(s) == [i \in 0..(num_beats(s) - 1) |-> i * s.beat_duration]

\* calculate_element_durations: to the next beat, the last one to the end
calculate_element_durations(beats, total_duration) ==
  LET n == Cardinality(DOMAIN beats)
  IN [i \in DOMAIN beats |->
        IF i < n - 1 THEN beats[i + 1] - beats[i] ELSE total_duration - beats[i]]

NoTimelineProject ==
  [built |-> FALSE, duration |-> 0, elements |-> <<>>, markers |-> <<>>,
   photo_placements |-> <<>>]

\* "for placement in placements": the elements appended, and the value the
\* local duration_sec holds when the loop ends
RECURSIVE PhotoElements(_, _, _, _)
PhotoElements(ps, s, element_durations, loop) ==
  IF ps = <<>> THEN loop
  ELSE LET placement == Head(ps)
           beat_start_sec == beat_times(s)[placement.beat_index]
           duration_sec == element_durations[placement.beat_index]
       IN PhotoElements(Tail(ps), s, element_durations,
            [elements |-> Append(loop.elements,
                            [uid |-> placement.path,
                             start |-> beat_start_sec * MsPerSecond + s.gap_sec * MsPerSecond,
                             duration |-> duration_sec * MsPerSecond,
                             track |-> 1, media_type |-> "video"]),
             duration_sec |-> duration_sec])

\* the markers of beats[start_offset : len(beats) - end_offset]
BeatMarkers(s) ==
  LET first == SliceStart(beats_len, start_offset)
      n == num_effective_beats
  IN [i \in 1..n |->
        [position |-> beat_times(s)[first + i - 1] * MsPerSecond + s.gap_sec * MsPerSecond,
         name |-> (i - 1) + start_offset + 1]]

BuildIdle ==
  /\ soundtrack = [duration_sec |-> 1, beat_duration |-> 1, gap_sec |-> 0]
  /\ timeline_project = NoTimelineProject

\* create_timeline_project after map_photos_to_beats has returned: the audio
\* element, the photo elements, the beat markers and the TimelineProject
CreateTimelineProject ==
  /\ apc = "done"
  /\ ~timeline_project.built
  /\ LET element_durations ==
           calculate_element_durations(beat_times(soundtrack), soundtrack.duration_sec)
         audio == [uid |-> "soundtrack",
                   start |-> soundtrack.gap_sec * MsPerSecond,
                   duration |-> soundtrack.duration_sec * MsPerSecond,
                   track |-> -1, media_type |-> "audio"]
         loop == PhotoElements(result, soundtrack, element_durations,
                               [elements |-> <<audio>>,
                                duration_sec |-> soundtrack.duration_sec])
     IN timeline_project' =
          [built |-> TRUE,
           duration |-> (loop.duration_sec + soundtrack.gap_sec) * MsPerSecond,
           elements |-> loop.elements,
           markers |-> BeatMarkers(soundtrack),
           photo_placements |-> result]
  /\ UNCHANGED <<assignVars, syncVars, soundtrack>>

AssignIdle ==
  /\ apc = "start"
  /\ clusters = <<>>
  /\ work = <<>>
  /\ beat_occupied = [b \in 0..(beats_len - 1) |-> FALSE]
  /\ placements = <<>>
  /\ warnings = {}
  /\ result = <<>>
  /\ call = 1
  /\ previous_result = <<>>

\* ----------------------------------------------------------------- actions
filtered_photos == SelectSeq(photos, InDateRange)

\* map_photos_to_beats: filter, then choose the mode
MapPhotosToBeats ==
  /\ apc = "start"
  /\ IF filtered_photos = <<>>
     THEN /\ apc' = "done"
          /\ warnings' = warnings \cup {[path |-> 0, reason |-> "no photos in date range"]}
          /\ UNCHANGED clusters
     ELSE IF time_gap.amount = 0
     THEN /\ apc' = "original"
          /\ UNCHANGED <<clusters, warnings>>
     ELSE /\ apc' = "clustered"
          /\ clusters' = cluster_photos_by_time_gap(filtered_photos, time_gap)
          /\ UNCHANGED warnings
  /\ UNCHANGED <<syncVars, buildVars, assignInputs, work, beat_occupied, placements, result>>

\* map_photos_to_beats_original up to the first pass: the two fatal checks
OriginalCheck ==
  /\ apc = "original"
  /\ IF timespan <= 0 THEN apc' = "error_timespan" /\ UNCHANGED work
     ELSE IF CapacityExceeded(Len(filtered_photos))
     THEN apc' = "error_capacity" /\ UNCHANGED work
     ELSE apc' = "original_anchored" /\ work' = filtered_photos
  /\ UNCHANGED <<syncVars, buildVars, assignInputs, clusters, beat_occupied, placements, warnings, result>>

\* second-pass input: the photos without anchor or without placement
non_anchored(ps) ==
  SelectSeq(filtered_photos,
            LAMBDA photo : photo.anchor = NoAnchor \/ photo.path \notin PlacedPaths(ps))

\* one iteration of the first pass of map_photos_to_beats_original
OriginalAnchoredStep ==
  /\ apc = "original_anchored"
  /\ work # <<>>
  /\ LET photo == Head(work)
         beat_index == beat_index_of(photo.anchor)
         placed == AnchorAccepted(photo, beat_occupied)
         placements1 == IF placed
                        THEN Append(placements, PhotoPlacement(photo, beat_index, TRUE, NoCluster))
                        ELSE placements
     IN /\ placements' = placements1
        /\ beat_occupied' = IF placed THEN [beat_occupied EXCEPT ![beat_index] = TRUE]
                            ELSE beat_occupied
        /\ warnings' =
             IF photo.anchor = NoAnchor \/ placed THEN warnings
             ELSE IF InEffectiveRange(beat_index)
             THEN warnings \cup {[path |-> photo.path, reason |-> "already occupied"]}
             ELSE warnings \cup {[path |-> photo.path, reason |-> "outside effective range"]}
        /\ IF Tail(work) = <<>>
           THEN apc' = "original_distribute" /\ work' = non_anchored(placements1)
           ELSE apc' = apc /\ work' = Tail(work)
  /\ UNCHANGED <<syncVars, buildVars, assignInputs, clusters, result>>

\* one iteration of the second pass of map_photos_to_beats_original
OriginalDistributeStep ==
  /\ apc = "original_distribute"
  /\ work # <<>>
  /\ LET photo == Head(work)
         assigned_beat == find_nearest_beat(beat_occupied, preferred_beat(photo.date))
     IN IF ~beat_occupied[assigned_beat]
        THEN /\ beat_occupied' = [beat_occupied EXCEPT ![assigned_beat] = TRUE]
             /\ placements' = Append(placements,
                                     PhotoPlacement(photo, assigned_beat, FALSE, NoCluster))
        ELSE UNCHANGED <<beat_occupied, placements>>
  /\ work' = Tail(work)
  /\ UNCHANGED <<syncVars, buildVars, assignInputs, apc, clusters, warnings, result>>

\* return sorted(placements, key=beat_index)
OriginalReturn ==
  /\ apc = "original_distribute"
  /\ work = <<>>
  /\ result' = SortPlacements(placements, FALSE)
  /\ apc' = "done"
  /\ UNCHANGED <<syncVars, buildVars, assignInputs, clusters, work, beat_occupied, placements, warnings>>

\* map_photo_clusters_to_beats up to the first pass: the two fatal checks
ClusterCheck ==
  /\ apc = "clustered"
  /\ IF timespan <= 0 THEN apc' = "error_timespan" /\ UNCHANGED work
     ELSE IF CapacityExceeded(Len(clusters))
     THEN apc' = "error_capacity" /\ UNCHANGED work
     ELSE apc' = "cluster_anchored" /\ work' = ClusterPhotoPairs(clusters, 1)
  /\ UNCHANGED <<syncVars, buildVars, assignInputs, clusters, beat_occupied, placements, warnings, result>>

\* the clusters none of whose photos has an anchored placement
unassigned_clusters(ps) ==
  LET has_anchored(cluster_idx) ==
        \E i \in 1..Len(ps) : ps[i].cluster_id = cluster_idx /\ ps[i].is_anchored
      idxs == [i \in 1..Len(clusters) |-> i - 1]
  IN SelectSeq(idxs, LAMBDA cluster_idx : ~has_anchored(cluster_idx))

\* one iteration of the first pass of map_photo_clusters_to_beats
ClusterAnchoredStep ==
  /\ apc = "cluster_anchored"
  /\ work # <<>>
  /\ LET photo == Head(work).photo
         cluster_idx == Head(work).cluster_idx
         beat_index == beat_index_of(photo.anchor)
         in_range == photo.anchor # NoAnchor /\ InEffectiveRange(beat_index)
         placed == AnchorAccepted(photo, beat_occupied)
         placements1 == IF placed
                        THEN Append(placements, PhotoPlacement(photo, beat_index, TRUE, cluster_idx))
                        ELSE placements
     IN /\ placements' = placements1
        /\ beat_occupied' = IF placed THEN [beat_occupied EXCEPT ![beat_index] = TRUE]
                            ELSE beat_occupied
        /\ warnings' =
             IF in_range /\ ~placed
             THEN warnings \cup {[path |-> photo.path, reason |-> "already occupied"]}
             ELSE warnings
        /\ IF Tail(work) = <<>>
           THEN apc' = "cluster_distribute" /\ work' = unassigned_clusters(placements1)
           ELSE apc' = apc /\ work' = Tail(work)
  /\ UNCHANGED <<syncVars, buildVars, assignInputs, clusters, result>>

PlaceCluster_NoPlacement(ps, cluster_photos, assigned_beat, cluster_idx) == ps
\* the placements of the photos of a cluster that are not anchored yet
RECURSIVE PlaceCluster(_, _, _, _)
PlaceCluster(ps, cluster_photos, assigned_beat, cluster_idx) ==
  IF cluster_photos = <<>> THEN ps
  ELSE LET photo == Head(cluster_photos)
       IN IF photo.path \in AnchoredPaths(ps)
          THEN PlaceCluster(ps, Tail(cluster_photos), assigned_beat, cluster_idx)
          ELSE PlaceCluster(Append(ps, PhotoPlacement(photo, assigned_beat, FALSE, cluster_idx)),
                            Tail(cluster_photos), assigned_beat, cluster_idx)

\* one iteration of the second pass of map_photo_clusters_to_beats
ClusterDistributeStep ==
  /\ apc = "cluster_distribute"
  /\ work # <<>>
  /\ LET cluster_idx == Head(work)
         cluster == clusters[cluster_idx + 1]
         assigned_beat ==
           find_nearest_beat(beat_occupied, preferred_beat(representative_date(cluster)))
     IN IF ~beat_occupied[assigned_beat]
        THEN /\ beat_occupied' = [beat_occupied EXCEPT ![assigned_beat] = TRUE]
             /\ placements' = PlaceCluster(placements, cluster.photos, assigned_beat, cluster_idx)
        ELSE UNCHANGED <<beat_occupied, placements>>
  /\ work' = Tail(work)
  /\ UNCHANGED <<syncVars, buildVars, assignInputs, apc, clusters, warnings, result>>

\* return sorted(placements, key=(beat_index, date))
ClusterReturn ==
  /\ apc = "cluster_distribute"
  /\ work = <<>>
  /\ result' = SortPlacements(placements, TRUE)
  /\ apc' = "done"
  /\ UNCHANGED <<syncVars, buildVars, assignInputs, clusters, work, beat_occupied, placements, warnings>>

\* map_photos_to_beats is called once more on the same photos, beats, offsets,
\* date range and time gap, after the call before it returned
CallAgain ==
  /\ apc = "done"
  /\ call < MaxCalls
  /\ call' = call + 1
  /\ previous_result' = result
  /\ apc' = "start"
  /\ clusters' = <<>>
  /\ work' = <<>>
  /\ beat_occupied' = [b \in 0..(beats_len - 1) |-> FALSE]
  /\ placements' = <<>>
  /\ warnings' = {}
  /\ result' = <<>>
  /\ UNCHANGED <<syncVars, buildVars, photos, beats_len, start_offset, end_offset, start_date, end_date,
                 time_gap>>

NextAssign ==
  \/ MapPhotosToBeats
  \/ OriginalCheck
  \/ OriginalAnchoredStep
  \/ OriginalDistributeStep
  \/ OriginalReturn
  \/ ClusterCheck
  \/ ClusterAnchoredStep
  \/ ClusterDistributeStep
  \/ ClusterReturn


\* ================================================= ResolveSync.sync_project
\* ------------------------------------------------------ the target project
NoTag == ""
Tolerance == 1
HalfFrames(frames) == 2 * frames

\* the TimelineProject handed to sync_project: the soundtrack, one photo, two beats
project ==
  [name |-> "album",
   frame_rate |-> 2,
   elements |->
     << [uid |-> "s", media_type |-> "audio", start_frame |-> 0, duration_frames |-> 4],
        [uid |-> "a", media_type |-> "video", start_frame |-> 1, duration_frames |-> 1] >>,
   beats |-> << [index |-> 0, time_ms |-> 0], [index |-> 1, time_ms |-> 500] >>]

\* "c" is the UID of an asset that is no longer in the project
UIDs == {"a", "s", "c"}

SettingKeys == <<"timelineFrameRate", "timelineFrameRateMismatchBehavior", "videoMonitorFormat">>

\* ---------------------------------------------------------------- the host
Frames == 0..MaxFrame
StartFrames == {0, 1}

Marker(kind, index) == [kind |-> kind, index |-> index]
NoMarker == Marker("none", 0)
NoMarkers == [f \in Frames |-> NoMarker]
\* customData.startswith("beatspine:")
MarkerTagged(m) == m.kind \in {"beat", "malformed"}

Item(tag, media_type, start, duration) ==
  [tag |-> tag, media_type |-> media_type, start |-> start, duration |-> duration]

\* the keys of the JSON record kept under "beatspine_state"
RequiredFields ==
  {"project_name", "timeline_name", "photo_count", "audio_duration_ms",
   "placeholder_mode", "managed_asset_uids"}
DefaultedFields == {"timeline_item_count", "last_sync_version"}
\* the record as stored on the timeline: the managed UIDs and the keys it has
StateRecord(managed_asset_uids, fields) ==
  [present |-> TRUE, managed_asset_uids |-> managed_asset_uids, fields |-> fields]
\* a SyncState object, and the record _persist_managed_state writes for it
SyncState(managed_asset_uids) ==
  StateRecord(managed_asset_uids, RequiredFields \cup DefaultedFields)
NoState == [present |-> FALSE, managed_asset_uids |-> {}, fields |-> {}]

NoTimeline ==
  [timeline |-> FALSE, start_frame |-> 0, items |-> <<>>, markers |-> NoMarkers,
   state |-> NoState, current |-> FALSE]
NoProject == [project |-> FALSE, settings |-> {}] @@ NoTimeline
EmptyProject == [project |-> TRUE, settings |-> {}] @@ NoTimeline

\* GetItemListInTrack over the video tracks, then over the audio tracks
TrackOrder(items) ==
  SelectSeq(items, LAMBDA item : item.media_type = "video")
    \o SelectSeq(items, LAMBDA item : item.media_type = "audio")

\* ---------------------------------------------------------------- analysis
\* _extract_beatspine_uid: the UID of the "beatspine:" marker of the item, if any
extract_beatspine_uid(item) == item.tag

\* _extract_managed_state: state_data[key] raises KeyError for a missing
\* required key and the except clause returns None; .get() defaults the others
extract_managed_state(h) ==
  IF h.state.present /\ RequiredFields \subseteq h.state.fields
  THEN SyncState(h.state.managed_asset_uids)
  ELSE NoState

\* _catalog_current_items: UID -> item, a later item replacing an earlier one
catalog_current_items(h) ==
  LET items == TrackOrder(h.items)
      tagged == {i \in 1..Len(items) : extract_beatspine_uid(items[i]) # NoTag}
      uids == {extract_beatspine_uid(items[i]) : i \in tagged}
      last(uid) == CHOOSE i \in tagged :
                     /\ extract_beatspine_uid(items[i]) = uid
                     /\ \A j \in tagged : extract_beatspine_uid(items[j]) = uid => j <= i
  IN [uid \in uids |-> items[last(uid)]]

target_elements ==
  LET uids == {project.elements[i].uid : i \in 1..Len(project.elements)}
  IN [uid \in uids |->
        project.elements[CHOOSE i \in 1..Len(project.elements) :
          /\ project.elements[i].uid = uid
          /\ \A j \in 1..Len(project.elements) : project.elements[j].uid = uid => j <= i]]

\* _requires_update: start or duration off by more than half a frame
requires_update(current_item, target_element) ==
  \/ Abs(current_item.start - HalfFrames(target_element.start_frame)) > Tolerance
  \/ Abs(current_item.duration - HalfFrames(target_element.duration_frames)) > Tolerance

\* stale_uids = (current_uids & managed_uids) - target_uids
stale_uids_AllCurrent(current_uids, managed_uids, target_uids) == current_uids \ target_uids
stale_uids_KeepTarget(current_uids, managed_uids, target_uids) ==
  current_uids \cap managed_uids
stale_uids(current_uids, managed_uids, target_uids) ==
  (current_uids \cap managed_uids) \ target_uids

NoChanges ==
  [items_to_add |-> {}, items_to_remove |-> {}, items_to_update |-> {},
   markers_to_sync |-> FALSE, full |-> FALSE]
FullSync_AsEmptyDiff == NoChanges
\* changes is None: the full sync of a new timeline
FullSync == [NoChanges EXCEPT !.full = TRUE]

\* _compute_differential_changes
compute_differential_changes(current, target, stored) ==
  LET current_uids == DOMAIN current
      target_uids == DOMAIN target
      managed_uids == IF stored.present THEN stored.managed_asset_uids ELSE {}
      common_uids == current_uids \cap target_uids
  IN [items_to_add |-> target_uids \ current_uids,
      items_to_remove |-> stale_uids(current_uids, managed_uids, target_uids),
      items_to_update |-> {uid \in common_uids : requires_update(current[uid], target[uid])},
      markers_to_sync |-> TRUE,
      full |-> FALSE]

NoConflicts == [unmanaged_items |-> {}, manual_markers |-> {}]
\* _analyze_conflicts: the untagged items (by position) and the untagged markers (by frame)
analyze_conflicts_AllMarkers(h) ==
  [unmanaged_items |-> {i \in 1..Len(h.items) : extract_beatspine_uid(h.items[i]) = NoTag},
   manual_markers |-> {f \in Frames : h.markers[f] # NoMarker}]
analyze_conflicts(h) ==
  [unmanaged_items |-> {i \in 1..Len(h.items) : extract_beatspine_uid(h.items[i]) = NoTag},
   manual_markers |-> {f \in Frames : h.markers[f] # NoMarker /\ ~MarkerTagged(h.markers[f])}]
has_conflicts(c) == c.unmanaged_items # {} \/ c.manual_markers # {}

\* if conflicts.has_conflicts and not force
needs_confirmation_EvenForced(c, forced) == has_conflicts(c)
needs_confirmation(c, forced) == has_conflicts(c) /\ ~forced

\* ------------------------------------------------------------------- apply
\* the item the host creates for an accepted AppendToTimeline: no marker is set on it
AppendedItem(element, timeline_start_frame) ==
  Item(NoTag, element.media_type,
       HalfFrames(timeline_start_frame + element.start_frame),
       HalfFrames(element.duration_frames))

\* the elements in the order of the two loops: video first, then audio; the
\* elements without imported media are passed over
ElementsToAppend(elements, imported) ==
  SelectSeq(elements, LAMBDA e : e.media_type = "video" /\ e.uid \in imported)
    \o SelectSeq(elements, LAMBDA e : e.media_type = "audio" /\ e.uid \in imported)

RECURSIVE AppendAll_StopAtRejection(_, _, _, _)
AppendAll_StopAtRejection(items, elements, accepted, timeline_start_frame) ==
  IF elements = <<>> \/ Head(elements).uid \notin accepted THEN items
  ELSE AppendAll_StopAtRejection(Append(items, AppendedItem(Head(elements), timeline_start_frame)),
                                 Tail(elements), accepted, timeline_start_frame)
RECURSIVE AppendAll(_, _, _, _)
AppendAll(items, elements, accepted, timeline_start_frame) ==
  IF elements = <<>> THEN items
  ELSE AppendAll(IF Head(elements).uid \in accepted
                 THEN Append(items, AppendedItem(Head(elements), timeline_start_frame))
                 ELSE items,
                 Tail(elements), accepted, timeline_start_frame)

\* _add_elements_to_timeline: the items of the timeline afterwards
add_elements_to_timeline(h, elements, imported, accepted) ==
  AppendAll(h.items, ElementsToAppend(elements, imported), accepted, h.start_frame)

AddReport(elements, imported, accepted) ==
  LET tried == ElementsToAppend(elements, imported)
  IN {[msg |-> (IF tried[i].uid \in accepted THEN "added" ELSE "not placed"),
       uid |-> tried[i].uid] : i \in 1..Len(tried)}

SelectElements(uids) == SelectSeq(project.elements, LAMBDA e : e.uid \in uids)

\* ----------------------------------------------------------- beat markers
\* int(beat.time * project.frame_rate)
BeatFrame(beat) == (beat.time_ms * project.frame_rate) \div 1000
target_markers == [i \in {project.beats[k].index : k \in 1..Len(project.beats)} |->
                     BeatFrame(project.beats[i + 1])]

\* beat_index -> frame of the tagged beat markers; a later frame replaces an earlier one
current_beat_markers(markers) ==
  LET frames_of(i) == {f \in Frames : markers[f] = Marker("beat", i)}
      indices == {markers[f].index : f \in {g \in Frames : markers[g].kind = "beat"}}
  IN [i \in indices |-> CHOOSE f \in frames_of(i) : \A g \in frames_of(i) : g <= f]

\* the host: DeleteMarkerAtFrame and AddMarker (refused on a frame that has a marker)
DeleteMarkerAtFrame(markers, frame) ==
  IF frame \in Frames THEN [markers EXCEPT ![frame] = NoMarker] ELSE markers
AddMarker(markers, frame, marker) ==
  IF frame \in Frames /\ markers[frame] = NoMarker
  THEN [markers EXCEPT ![frame] = marker] ELSE markers

RECURSIVE DeleteAll(_, _)
DeleteAll(markers, frames) ==
  IF frames = {} THEN markers
  ELSE LET f == CHOOSE x \in frames : TRUE
       IN DeleteAll(DeleteMarkerAtFrame(markers, f), frames \ {f})

\* the frames cleared before the marker of a beat is added again: the frame of
\* its old marker when it has one
frames_to_clear_TargetToo(current, beat_index, target_frame) ==
  (IF beat_index \in DOMAIN current THEN {current[beat_index]} ELSE {}) \cup {target_frame}
frames_to_clear(current, beat_index, target_frame) ==
  IF beat_index \in DOMAIN current THEN {current[beat_index]} ELSE {}

\* the loop over target_indices, in ascending order
RECURSIVE SyncTargetMarkers(_, _, _)
SyncTargetMarkers(markers, current, beat_index) ==
  IF beat_index \notin DOMAIN target_markers THEN markers
  ELSE LET target_frame == target_markers[beat_index]
           stale == \/ beat_index \notin DOMAIN current
                    \/ Abs(current[beat_index] - target_frame) > 0
       IN SyncTargetMarkers(
            IF stale
            THEN AddMarker(DeleteAll(markers, frames_to_clear(current, beat_index, target_frame)),
                           target_frame, Marker("beat", beat_index))
            ELSE markers,
            current, beat_index + 1)

\* _synchronize_beat_markers: the markers of the timeline afterwards
synchronize_beat_markers(markers) ==
  LET current == current_beat_markers(markers)
      malformed == {f \in Frames : markers[f].kind = "malformed"}
      obsolete == {current[i] : i \in DOMAIN current \ DOMAIN target_markers}
  IN SyncTargetMarkers(DeleteAll(markers, malformed \cup obsolete), current, 0)

\* the marker calls _synchronize_beat_markers makes on the host
MarkerCalls(markers) ==
  LET current == current_beat_markers(markers)
      moved == {i \in DOMAIN current \cap DOMAIN target_markers : current[i] # target_markers[i]}
  IN (IF (\E f \in Frames : markers[f].kind = "malformed")
         \/ DOMAIN current \ DOMAIN target_markers # {} \/ moved # {}
      THEN {"DeleteMarkerAtFrame"} ELSE {})
     \cup (IF moved # {} \/ DOMAIN target_markers \ DOMAIN current # {}
           THEN {"AddMarker"} ELSE {})

\* ------------------------------------------------------------------ inputs
HostItemKinds(timeline_start_frame) ==
  { Item(NoTag, "video", 0, 2),
    Item("a", "video", HalfFrames(timeline_start_frame + 1), 2),
    Item("a", "video", HalfFrames(timeline_start_frame + 1) + 2, 2),
    Item("c", "video", HalfFrames(timeline_start_frame), 2) }
HostMarkerKinds ==
  {Marker("manual", 0)} \cup {Marker("beat", i) : i \in 0..Len(project.beats)}
HostStates ==
  { NoState, SyncState({"a", "s"}), SyncState({"a", "s", "c"}),
    StateRecord({"a", "s", "c"}, (RequiredFields \cup DefaultedFields) \ {"photo_count"}),
    StateRecord({"a", "s", "c"}, RequiredFields \cup {"last_sync_version", "comment"}) }

HostsWithTimeline ==
  { [project |-> TRUE, settings |-> {}, timeline |-> TRUE, start_frame |-> sf,
     items |-> its, markers |-> ms, state |-> st, current |-> FALSE] :
      sf \in StartFrames,
      its \in UNION {[1..n -> UNION {HostItemKinds(x) : x \in StartFrames}] : n \in 0..MaxHostItems},
      ms \in {m \in [Frames -> HostMarkerKinds \cup {NoMarker}] :
                Cardinality({f \in Frames : m[f] # NoMarker}) <= MaxHostMarkers},
      st \in HostStates }

SyncIdle ==
  /\ host_at_start = host
  /\ pc = "idle"
  /\ session = 0
  /\ force = FALSE /\ recreate = FALSE /\ dry_run = FALSE
  /\ stored_state = NoState
  /\ current_items = <<>>
  /\ changes = NoChanges
  /\ conflicts = NoConflicts
  /\ media_items = {}
  /\ answer = "none"
  /\ calls = {}
  /\ report = {}
  /\ outcome = "none"
  /\ previous_outcome = "none"

InitAssign ==
  /\ photos \in PhotoLists
  /\ beats_len \in 1..MaxBeats
  /\ start_offset \in 0..MaxOffset
  /\ end_offset \in 0..MaxEndOffset
  /\ \E override \in BOOLEAN :
       /\ start_date = IF override THEN DateRangeOverride.start_date ELSE photos[1].date
       /\ end_date = IF override THEN DateRangeOverride.end_date ELSE photos[Len(photos)].date
  /\ time_gap \in TimeGaps
  /\ AssignIdle
  /\ host = NoProject
  /\ SyncIdle
  /\ BuildIdle

InitSync ==
  /\ host \in {NoProject, EmptyProject} \cup HostsWithTimeline
  /\ SyncIdle
  /\ BuildIdle
  /\ photos = <<Photo(1, 0, NoAnchor)>>
  /\ beats_len = 1 /\ start_offset = 0 /\ end_offset = 0
  /\ start_date = 0 /\ end_date = 0
  /\ time_gap = TimeGapNone
  /\ AssignIdle

\* ----------------------------------------------------------------- actions
SessionOver == pc \in {"idle", "done", "failed"}

\* sync_project is called: a new ResolveSync, the flags of the command line
StartSession ==
  /\ SessionOver
  /\ session < MaxSessions
  /\ session' = session + 1
  /\ force' \in BOOLEAN /\ recreate' \in BOOLEAN /\ dry_run' \in BOOLEAN
  /\ pc' = "connect"
  /\ host_at_start' = host
  /\ previous_outcome' = outcome
  /\ outcome' = "running"
  /\ stored_state' = NoState
  /\ current_items' = <<>>
  /\ changes' = NoChanges
  /\ conflicts' = NoConflicts
  /\ media_items' = {}
  /\ answer' = "none"
  /\ calls' = {}
  /\ report' = {}
  /\ UNCHANGED <<assignVars, buildVars, host>>

EstablishConnection_Swallowed ==
  /\ pc = "connect"
  /\ \E reachable \in BOOLEAN :
       /\ pc' = "project"
       /\ IF reachable THEN UNCHANGED outcome ELSE outcome' = "ResolveConnectionError"
  /\ UNCHANGED <<assignVars, buildVars, host, host_at_start, session, flags, analysis, media_items,
                 answer, calls, report, previous_outcome>>

\* _establish_connection
EstablishConnection ==
  /\ pc = "connect"
  /\ \E reachable \in BOOLEAN :
       IF reachable THEN pc' = "project" /\ UNCHANGED outcome
       ELSE pc' = "failed" /\ outcome' = "ResolveConnectionError"
  /\ UNCHANGED <<assignVars, buildVars, host, host_at_start, session, flags, analysis, media_items,
                 answer, calls, report, previous_outcome>>

LocateOrCreateProject_AlwaysRecreate ==
  /\ pc = "project"
  /\ \E created \in BOOLEAN :
       /\ calls' = calls \cup (IF host.project THEN {"DeleteProject"} ELSE {})
                         \cup (IF created THEN {"CreateProject"} ELSE {})
       /\ host' = IF created THEN EmptyProject ELSE NoProject
       /\ IF created THEN pc' = "settings" /\ UNCHANGED outcome
          ELSE pc' = "failed" /\ outcome' = "RuntimeError: Project creation failed"
  /\ UNCHANGED <<assignVars, buildVars, host_at_start, session, flags, analysis, media_items,
                 answer, report, previous_outcome>>

\* _locate_or_create_project
LocateOrCreateProject ==
  /\ pc = "project"
  /\ IF host.project /\ ~recreate
     THEN /\ pc' = "settings"
          /\ UNCHANGED <<host, calls, outcome>>
     ELSE \E created \in BOOLEAN :
            /\ calls' = calls \cup (IF host.project THEN {"DeleteProject"} ELSE {})
                              \cup (IF created THEN {"CreateProject"} ELSE {})
            /\ host' = IF created THEN EmptyProject ELSE NoProject
            /\ IF created THEN pc' = "settings" /\ UNCHANGED outcome
               ELSE pc' = "failed" /\ outcome' = "RuntimeError: Project creation failed"
  /\ UNCHANGED <<assignVars, buildVars, host_at_start, session, flags, analysis, media_items,
                 answer, report, previous_outcome>>

\* the settings written before the host rejects one (rejected = 0: none rejected)
SettingsWritten(rejected) ==
  {SettingKeys[i] : i \in 1..(IF rejected = 0 THEN Len(SettingKeys) ELSE rejected - 1)}
\* except AssertionError as e: raise RuntimeError(f"Failed to set project framerate: {e}")
SettingError(rejected) ==
  IF rejected = 0 THEN {}
  ELSE {[msg |-> "Failed to set project framerate", uid |-> SettingKeys[rejected]]}

ConfigureProject_WarnOnly ==
  /\ pc = "settings"
  /\ \E rejected \in 0..Len(SettingKeys) :
       /\ host' = [host EXCEPT !.settings = @ \cup SettingsWritten(rejected)]
       /\ calls' = calls \cup (IF SettingsWritten(rejected) # {} THEN {"SetSetting"} ELSE {})
       /\ report' = report \cup SettingError(rejected)
       /\ pc' = "timeline" /\ UNCHANGED outcome
  /\ UNCHANGED <<assignVars, buildVars, host_at_start, session, flags, analysis, media_items,
                 answer, previous_outcome>>

\* the three SetSetting calls; the first one the host rejects aborts the session
ConfigureProject ==
  /\ pc = "settings"
  /\ \E rejected \in 0..Len(SettingKeys) :
       /\ host' = [host EXCEPT !.settings = @ \cup SettingsWritten(rejected)]
       /\ calls' = calls \cup (IF SettingsWritten(rejected) # {} THEN {"SetSetting"} ELSE {})
       /\ report' = report \cup SettingError(rejected)
       /\ IF rejected = 0 THEN pc' = "timeline" /\ UNCHANGED outcome
          ELSE pc' = "failed" /\ outcome' = "RuntimeError: Failed to set project framerate"
  /\ UNCHANGED <<assignVars, buildVars, host_at_start, session, flags, analysis, media_items,
                 answer, previous_outcome>>

\* _locate_timeline and the branch on its result: catalogue and diff an
\* existing timeline, create a missing one unless the run is a dry run
LocateTimeline ==
  /\ pc = "timeline"
  /\ IF host.timeline
     THEN /\ stored_state' = extract_managed_state(host)
          /\ current_items' = catalog_current_items(host)
          /\ changes' = compute_differential_changes(
                          catalog_current_items(host), target_elements,
                          extract_managed_state(host))
          /\ conflicts' = analyze_conflicts(host)
          /\ pc' = "conflicts"
          /\ UNCHANGED <<host, calls, outcome>>
     ELSE IF dry_run
     THEN /\ pc' = "done"
          /\ outcome' = "dry run"
          /\ UNCHANGED <<host, calls, analysis>>
     ELSE \E created \in BOOLEAN, sf \in StartFrames :
            /\ created \/ sf = 0
            /\ host' = IF created
                       THEN [host EXCEPT !.timeline = TRUE, !.start_frame = sf]
                       ELSE host
            /\ calls' = calls \cup (IF created THEN {"CreateEmptyTimeline"} ELSE {})
            /\ changes' = IF created THEN FullSync ELSE changes
            /\ IF created THEN pc' = "content" /\ UNCHANGED outcome
               ELSE pc' = "failed" /\ outcome' = "RuntimeError: Timeline creation failed"
            /\ UNCHANGED <<stored_state, current_items, conflicts>>
  /\ UNCHANGED <<assignVars, buildVars, host_at_start, session, flags, media_items,
                 answer, report, previous_outcome>>

\* the conflict gate and the dry-run exit that follow the analysis
ResolveConflicts ==
  /\ pc = "conflicts"
  /\ IF needs_confirmation(conflicts, force)
     THEN IF dry_run
          THEN /\ pc' = "done" /\ outcome' = "dry run"
               /\ report' = report \cup {[msg |-> "conflicts", uid |-> NoTag]}
               /\ UNCHANGED answer
          ELSE \E confirmed \in BOOLEAN :
                 /\ answer' = IF confirmed THEN "yes" ELSE "no"
                 /\ report' = report \cup {[msg |-> "conflicts", uid |-> NoTag]}
                 /\ IF confirmed THEN pc' = "content" /\ UNCHANGED outcome
                    ELSE pc' = "done" /\ outcome' = "cancelled"
     ELSE /\ IF dry_run THEN pc' = "done" /\ outcome' = "dry run"
             ELSE pc' = "content" /\ UNCHANGED outcome
          /\ UNCHANGED <<answer, report>>
  /\ UNCHANGED <<assignVars, buildVars, host, host_at_start, session, flags, analysis, media_items,
                 calls, previous_outcome>>

AssetUIDs == DOMAIN target_elements

\* _sync_timeline_content up to the markers: _import_media_batch, then
\* _add_elements_to_timeline (all elements, or the planned additions)
AddElements ==
  /\ pc = "content"
  /\ \E imported \in SUBSET AssetUIDs :
       LET elements == IF changes.full THEN project.elements
                       ELSE SelectElements(changes.items_to_add)
           tried == {elements[i].uid : i \in 1..Len(elements)} \cap imported
       IN \E accepted \in SUBSET tried :
            /\ media_items' = imported
            /\ host' = [host EXCEPT
                          !.items = add_elements_to_timeline(host, elements, imported, accepted)]
            /\ calls' = calls \cup (IF imported # {} THEN {"ImportMedia"} ELSE {})
                              \cup (IF tried # {} THEN {"AppendToTimeline"} ELSE {})
            /\ report' = report \cup AddReport(elements, imported, accepted)
                           \cup (IF changes.items_to_remove # {}
                                 THEN {[msg |-> "removing", uid |-> NoTag]} ELSE {})
                           \cup (IF changes.items_to_update # {}
                                 THEN {[msg |-> "updating", uid |-> NoTag]} ELSE {})
  /\ pc' = "markers"
  /\ UNCHANGED <<assignVars, buildVars, host_at_start, session, flags, analysis, answer,
                 outcome, previous_outcome>>

\* _synchronize_beat_markers
SynchronizeBeatMarkers ==
  /\ pc = "markers"
  /\ host' = [host EXCEPT !.markers = synchronize_beat_markers(host.markers)]
  /\ calls' = calls \cup MarkerCalls(host.markers)
  /\ pc' = "persist"
  /\ UNCHANGED <<assignVars, buildVars, host_at_start, session, flags, analysis, media_items, answer,
                 report, outcome, previous_outcome>>

\* the end of _sync_timeline_content: _persist_managed_state, SetCurrentTimeline
PersistManagedState ==
  /\ pc = "persist"
  /\ host' = [host EXCEPT !.state = SyncState(AssetUIDs), !.current = TRUE]
  /\ calls' = calls \cup {"SetSetting(beatspine_state)", "SetCurrentTimeline"}
  /\ pc' = "done"
  /\ outcome' = "synchronized"
  /\ UNCHANGED <<assignVars, buildVars, host_at_start, session, flags, analysis, media_items, answer,
                 report, previous_outcome>>

NextSync ==
  \/ StartSession
  \/ EstablishConnection
  \/ LocateOrCreateProject
  \/ ConfigureProject
  \/ LocateTimeline
  \/ ResolveConflicts
  \/ AddElements
  \/ SynchronizeBeatMarkers
  \/ PersistManagedState

Spec == InitSync /\ [][NextSync]_vars
SpecAssign == InitAssign /\ [][NextAssign]_vars

\* map_photos_to_beats on a soundtrack of up to MaxSearchBeats beats, with
\* anchors on any of them and dates that spread over the date range
SearchDates == {0, 48, 59, 60}
SearchPhotoLists ==
  UNION { { [i \in 1..n |-> Photo(i, d[i], a[i])] :
              d \in {x \in [1..n -> SearchDates] : \A i \in 1..(n - 1) : x[i] <= x[i + 1]},
              a \in [1..n -> {NoAnchor} \cup (1..MaxSearchBeats)] } : n \in 1..MaxPhotos }
InitSearch ==
  /\ photos \in SearchPhotoLists
  /\ beats_len \in 1..MaxSearchBeats
  /\ start_offset \in 0..MaxOffset
  /\ end_offset \in 0..MaxOffset
  /\ start_date = 0 /\ end_date = 60
  /\ time_gap \in {TimeGapNone, [amount |-> 1, unit |-> "minute", same_period_mode |-> FALSE]}
  /\ AssignIdle
  /\ host = NoProject
  /\ SyncIdle
  /\ BuildIdle
SpecSearch == InitSearch /\ [][NextAssign]_vars

\* sync_project on a timeline without items whose markers are any layout of
\* manual and tagged markers, two tagged markers of one beat index included
InitMarkers ==
  /\ host \in { [project |-> TRUE, settings |-> {}, timeline |-> TRUE, start_frame |-> 0,
                  items |-> <<>>, markers |-> ms, state |-> NoState, current |-> FALSE] :
                   ms \in {m \in [Frames -> HostMarkerKinds \cup {NoMarker}] :
                             Cardinality({f \in Frames : m[f] # NoMarker})
                               <= MaxTimelineMarkers} }
  /\ SyncIdle
  /\ BuildIdle
  /\ photos = <<Photo(1, 0, NoAnchor)>>
  /\ beats_len = 1 /\ start_offset = 0 /\ end_offset = 0
  /\ start_date = 0 /\ end_date = 0
  /\ time_gap = TimeGapNone
  /\ AssignIdle
SpecMarkers == InitMarkers /\ [][NextSync]_vars
NextRepeat == NextAssign \/ CallAgain
SpecRepeat == InitAssign /\ [][NextRepeat]_vars

\* create_timeline_project: the beats are generated from the soundtrack, the
\* photos are mapped to them, and the project is assembled from the result
InitBuild ==
  /\ photos \in PhotoLists
  /\ soundtrack \in Soundtracks
  /\ timeline_project = NoTimelineProject
  /\ beats_len = num_beats(soundtrack)
  /\ start_offset \in 0..MaxOffset
  /\ end_offset \in 0..MaxOffset
  /\ \E override \in BOOLEAN :
       /\ start_date = IF override THEN DateRangeOverride.start_date ELSE photos[1].date
       /\ end_date = IF override THEN DateRangeOverride.end_date ELSE photos[Len(photos)].date
  /\ time_gap \in TimeGaps
  /\ AssignIdle
  /\ host = NoProject
  /\ SyncIdle
NextBuild == NextAssign \/ CreateTimelineProject
SpecBuild == InitBuild /\ [][NextBuild]_vars

\* cluster_photos_by_time_gap on its own: any sorted photo list, any time gap
\* TimeGap.parse accepts any non-negative amount with or without "-same"
ClusterTimeGaps ==
  TimeGaps \cup
    { [amount |-> 2, unit |-> "second", same_period_mode |-> FALSE],
      [amount |-> 0, unit |-> "minute", same_period_mode |-> TRUE],
      [amount |-> 2, unit |-> "minute", same_period_mode |-> TRUE] }

InitCluster ==
  /\ photos \in PhotoLists
  /\ time_gap \in ClusterTimeGaps
  /\ beats_len = 1 /\ start_offset = 0 /\ end_offset = 0
  /\ start_date = photos[1].date /\ end_date = photos[Len(photos)].date
  /\ AssignIdle
  /\ host = NoProject
  /\ SyncIdle
  /\ BuildIdle
ClusterPhotosByTimeGap ==
  /\ apc = "start"
  /\ clusters' = cluster_photos_by_time_gap(photos, time_gap)
  /\ apc' = "clusters"
  /\ UNCHANGED <<syncVars, buildVars, assignInputs, work, beat_occupied, placements, warnings, result>>
NextCluster == ClusterPhotosByTimeGap
SpecCluster == InitCluster /\ [][NextCluster]_vars

\* ================================================================== claims
\* ------------------------------------------------------- slot assignment
Clustered == time_gap.amount # 0
PastChecks == apc \notin {"start", "original", "clustered"}
PinPassDone == apc \in {"original_distribute", "cluster_distribute", "done"}
\* the assignment units counted by the capacity check
Units == IF Clustered THEN Len(clusters) ELSE Len(filtered_photos)
DifferentUnit(p, q) ==
  IF Clustered THEN p.cluster_id # q.cluster_id ELSE p.path # q.path
NoSharedBeat(ps) ==
  \A i, j \in 1..Len(ps) :
    (i # j /\ DifferentUnit(ps[i], ps[j])) => ps[i].beat_index # ps[j].beat_index
PlacementsOf(path, ps) == {i \in 1..Len(ps) : ps[i].path = path}
NothingAssigned ==
  /\ \A b \in DOMAIN beat_occupied : ~beat_occupied[b]
  /\ placements = <<>>
  /\ result = <<>>

\* C1: at every step of an assignment run and in its returned list, two
\* placements of different assignment units (different photos without
\* clustering, different clusters with it) never have the same beat index.
C1_UniqueBeatPerUnit == NoSharedBeat(placements) /\ NoSharedBeat(result)

\* C1 witness: a clustered run has returned placements of two clusters, one
\* of them anchored and one distributed.
C1_Witness ==
  /\ apc = "done" /\ Clustered
  /\ \E i, j \in 1..Len(result) :
       /\ result[i].cluster_id # result[j].cluster_id
       /\ result[i].is_anchored /\ ~result[j].is_anchored

\* C8: once the capacity check has passed and the run has returned, every
\* photo inside the date range has exactly one placement in the result.
C8_EveryPhotoPlacedOnce ==
  apc = "done" =>
    \A k \in 1..Len(filtered_photos) :
      Cardinality(PlacementsOf(filtered_photos[k].path, result)) = 1

\* C9 as stated: whenever the units outnumber the effective beats, the run
\* ends in the capacity error with no beat occupied and no placement.
C9_CapacityErrorAlways ==
  (PastChecks /\ Units > num_effective_beats) =>
    (apc = "error_capacity" /\ NothingAssigned)

\* C9 amended: whenever the units outnumber the effective beats, the run ends
\* in a fatal error with no beat occupied and no placement; the error is the
\* capacity error when the date range has positive length and the
\* invalid-time-span error otherwise (that check comes first).
C9_FatalBeforeAssignment ==
  (PastChecks /\ Units > num_effective_beats) =>
    /\ apc = (IF end_date - start_date <= 0 THEN "error_timespan" ELSE "error_capacity")
    /\ NothingAssigned

\* C9 witness: three photos, two effective beats, the capacity error.
C9_Witness ==
  /\ apc = "error_capacity" /\ ~Clustered
  /\ Len(filtered_photos) = 3 /\ num_effective_beats = 2

\* the photos in the order in which the first pass visits them
PinOrder ==
  IF Clustered
  THEN [i \in 1..Len(ClusterPhotoPairs(clusters, 1)) |-> ClusterPhotoPairs(clusters, 1)[i].photo]
  ELSE filtered_photos
FirstValidRequest(k) ==
  /\ PinOrder[k].anchor # NoAnchor
  /\ start_offset <= PinOrder[k].anchor - 1
  /\ PinOrder[k].anchor - 1 < beats_len - end_offset
  /\ \A j \in 1..(k - 1) : PinOrder[j].anchor # PinOrder[k].anchor
PinnedAt(photo, ps) ==
  /\ \E i \in 1..Len(ps) :
       /\ ps[i].path = photo.path
       /\ ps[i].beat_index = photo.anchor - 1
       /\ ps[i].is_anchored
  /\ Cardinality(PlacementsOf(photo.path, ps)) = 1
NoDistributedOnAnchoredBeat(ps) ==
  \A i, j \in 1..Len(ps) :
    (ps[i].is_anchored /\ ~ps[j].is_anchored) => ps[i].beat_index # ps[j].beat_index

\* C10: in both modes, from the end of the first pass on and in the returned
\* list, every photo whose anchor p maps to beat p-1 inside the effective
\* range, and whose anchor no earlier photo of the first pass carries, has
\* its single placement anchored at beat p-1; no distributed placement is
\* ever on the beat of an anchored one.
C10_PinPriority ==
  /\ PinPassDone =>
        \A k \in 1..Len(PinOrder) : FirstValidRequest(k) => PinnedAt(PinOrder[k], placements)
  /\ (apc = "done" /\ filtered_photos # <<>>) =>
        \A k \in 1..Len(PinOrder) : FirstValidRequest(k) => PinnedAt(PinOrder[k], result)
  /\ NoDistributedOnAnchoredBeat(placements)
  /\ NoDistributedOnAnchoredBeat(result)

\* C10 witness: a run without clustering returned an anchored placement on
\* the beat that a distributed photo preferred by its date.
C10_Witness ==
  /\ apc = "done" /\ ~Clustered
  /\ \E i, j \in 1..Len(result) :
       /\ result[i].is_anchored /\ ~result[j].is_anchored
       /\ preferred_beat(result[j].date) = result[i].beat_index

\* ---------------------------------------------------------- reconciliation
Planned == changes.markers_to_sync
Applying == pc \in {"content", "markers", "persist"}
TargetUIDs == {project.elements[i].uid : i \in 1..Len(project.elements)}
Untagged(items) == {i \in 1..Len(items) : items[i].tag = NoTag}
ManualFrames(markers) == {f \in Frames : markers[f].kind = "manual"}
ChangeSetEmpty ==
  /\ changes.items_to_add = {}
  /\ changes.items_to_remove = {}
  /\ changes.items_to_update = {}
\* the previous session left on the timeline the item of every target element
EveryElementWasPlaced ==
  \A k \in 1..Len(project.elements) :
    \E i \in 1..Len(host_at_start.items) :
      /\ host_at_start.items[i].media_type = project.elements[k].media_type
      /\ host_at_start.items[i].start =
           2 * (host_at_start.start_frame + project.elements[k].start_frame)
      /\ host_at_start.items[i].duration = 2 * project.elements[k].duration_frames

\* C2: when the previous session synchronized the project and placed every
\* element, the change set computed by the next session of the same project
\* has no additions, no removals and no updates.
C2_SecondRunEmptyChangeSet ==
  (session = 2 /\ previous_outcome = "synchronized" /\ EveryElementWasPlaced /\ Planned)
    => ChangeSetEmpty

\* C3: right after the analysis of an existing timeline, every UID planned
\* for removal is the tag of an item of the timeline, is in the managed UIDs
\* of the stored state and is not a target UID; the item it stands for is a
\* tagged one; without stored state nothing is planned for removal.
C3_ConservativeRemoval ==
  pc = "conflicts" =>
    /\ \A uid \in changes.items_to_remove :
         /\ \E i \in 1..Len(host.items) : host.items[i].tag = uid
         /\ current_items[uid].tag # NoTag
         /\ host.state.present /\ uid \in host.state.managed_asset_uids
         /\ uid \notin TargetUIDs
    /\ ~host.state.present => changes.items_to_remove = {}

\* C3 witness: the analysis planned the removal of the stale managed item "c".
C3_Witness ==
  /\ pc = "conflicts"
  /\ changes.items_to_remove = {"c"}

\* C4: no step of the content synchronisation (adding elements, beat markers,
\* persisting the state), forced or not, removes, moves or changes an
\* untagged item or an untagged marker of the timeline.
C4_ForeignUntouched ==
  [][Applying =>
       /\ \A i \in Untagged(host.items) :
            i <= Len(host'.items) /\ host'.items[i] = host.items[i]
       /\ \A f \in ManualFrames(host.markers) : host'.markers[f] = host.markers[f]]_vars

\* C4 witness: a session synchronized a timeline that held an untagged item
\* and a manual marker, and it appended items and added markers.
C4_Witness ==
  /\ outcome = "synchronized"
  /\ Untagged(host_at_start.items) # {}
  /\ ManualFrames(host_at_start.markers) # {}
  /\ {"AppendToTimeline", "AddMarker"} \subseteq calls

\* C5: a session run with dry_run makes no mutating call on the host and
\* leaves the host as it was when the session started.
C5_DryRunNoMutation ==
  dry_run => (calls = {} /\ host = host_at_start)

\* C6: on an analysed timeline with an untagged item or marker, the content
\* synchronisation runs without force only after the operator answered yes;
\* with force the operator is never asked, and a forced session that is not
\* a dry run goes on to synchronize.
C6_ConflictGate ==
  LET conflict == Untagged(host_at_start.items) # {} \/ ManualFrames(host_at_start.markers) # {}
  IN /\ (Planned /\ conflict /\ ~force /\ (Applying \/ outcome = "synchronized"))
          => answer = "yes"
     /\ force => answer = "none"
     /\ (Planned /\ conflict /\ force /\ ~dry_run /\ pc # "conflicts")
          => (Applying \/ (pc = "done" /\ outcome = "synchronized"))

\* C6 witness: conflicts, no force, the operator confirmed, the session synchronized.
C6_Witness ==
  /\ Planned /\ ~force /\ answer = "yes"
  /\ Untagged(host_at_start.items) # {}
  /\ outcome = "synchronized"

\* C7: when the operator declines, the host is as it was when the session
\* started and no mutating call was made.
C7_DeclineNoMutation ==
  answer = "no" => (host = host_at_start /\ calls = {})

\* ------------------------------------------- slot assignment, continued
InRange(ps) ==
  \A i \in 1..Len(ps) :
    start_offset <= ps[i].beat_index /\ ps[i].beat_index < beats_len - end_offset

\* C11: every placement of a run, anchored or distributed, in the list being
\* built and in the returned list, has its beat index in
\* [start_offset, len(beats) - end_offset).
C11_PlacementsInEffectiveRange == InRange(placements) /\ InRange(result)

OnTimeline(uid) ==
  \E i \in 1..Len(host.items) :
    \/ host.items[i].tag = uid
    \/ /\ uid \in TargetUIDs
       /\ host.items[i] = AppendedItem(target_elements[uid], host.start_frame)
Reported(msg, uid) == [msg |-> msg, uid |-> uid] \in report
\* the elements the session hands to the addition step
ElementsHandedOver ==
  IF changes.full THEN TargetUIDs ELSE changes.items_to_add
PastAdditions == pc \in {"markers", "persist"} \/ (pc = "done" /\ outcome = "synchronized")

\* C13: after a session that synchronized, every UID in the managed UIDs of
\* the persisted state is the UID of an element that is on the timeline.
C13_PersistedOnlyPlaced ==
  (pc = "done" /\ outcome = "synchronized") =>
    \A uid \in host.state.managed_asset_uids : OnTimeline(uid)

\* C14: a placement the host rejects is reported for its element; every other
\* element with imported media is still attempted (reported as added or as
\* not placed), the accepted ones are on the timeline; the session then
\* synchronizes the beat markers and persists the state, and ends
\* synchronized, never failed.
C14_RejectedPlacementGoesOn ==
  /\ [](PastAdditions =>
          /\ \A uid \in ElementsHandedOver \cap media_items :
               Reported("added", uid) \/ Reported("not placed", uid)
          /\ \A uid \in TargetUIDs : Reported("added", uid) => OnTimeline(uid)
          /\ (\E uid \in TargetUIDs : Reported("not placed", uid)) =>
               /\ outcome \in {"running", "synchronized"}
               /\ pc = "done" => (host.state.present /\ outcome = "synchronized"))
  /\ [][(pc = "markers" /\ \E uid \in TargetUIDs : Reported("not placed", uid)) =>
          (pc' = "persist" /\ host'.markers = synchronize_beat_markers(host.markers))]_vars
  /\ [][(pc = "persist" /\ \E uid \in TargetUIDs : Reported("not placed", uid)) =>
          (pc' = "done" /\ host'.state = SyncState(TargetUIDs))]_vars

\* C14 witness: the host rejected the photo and accepted the soundtrack, and
\* the session went on to synchronize.
C14_Witness ==
  /\ pc = "done" /\ outcome = "synchronized"
  /\ Reported("not placed", "a") /\ Reported("added", "s")
  /\ OnTimeline("s") /\ host.state.present

ContentCalls ==
  {"CreateEmptyTimeline", "ImportMedia", "AppendToTimeline", "AddMarker",
   "DeleteMarkerAtFrame", "SetSetting(beatspine_state)", "SetCurrentTimeline"}
SettingRejected == \E k \in UIDs \cup {SettingKeys[i] : i \in 1..Len(SettingKeys)} :
                     Reported("Failed to set project framerate", k)

\* C15: once the host has rejected a project setting, the session has failed
\* with the settings error: it made no call that creates a timeline, imports
\* or appends media, adds or deletes a marker or writes the state, and a
\* timeline of the host is the one of the session's start, unchanged.
C15_RejectedSettingIsFatal ==
  SettingRejected =>
    /\ pc = "failed"
    /\ outcome = "RuntimeError: Failed to set project framerate"
    /\ calls \cap ContentCalls = {}
    /\ host.timeline =>
         /\ host_at_start.timeline
         /\ host.items = host_at_start.items
         /\ host.markers = host_at_start.markers
         /\ host.state = host_at_start.state
         /\ host.current = host_at_start.current

\* C15 witness: the host took the first setting and rejected the second, on a
\* project that has its timeline.
C15_Witness ==
  /\ Reported("Failed to set project framerate", "timelineFrameRateMismatchBehavior")
  /\ "timelineFrameRate" \in host.settings
  /\ host.timeline /\ pc = "failed"

\* C16: a session that ended in the connection error made no mutating call,
\* went no further than the connection, and left the host as it was.
C16_UnreachableHostUntouched ==
  outcome = "ResolveConnectionError" =>
    (pc = "failed" /\ calls = {} /\ host = host_at_start /\ report = {})

\* C16 witness: the connection failed in a session with recreate on a host
\* that has the project and its timeline.
C16_Witness ==
  /\ outcome = "ResolveConnectionError"
  /\ recreate /\ host.project /\ host.timeline

TimelineCreated == "CreateEmptyTimeline" \in calls
BeatMarkersOnTarget ==
  \A i \in DOMAIN target_markers : host.markers[target_markers[i]] = Marker("beat", i)

\* C17: a session that is no dry run and finds no timeline of the project's
\* name creates one (or fails with the timeline error when the host creates
\* none). Having created it, the session reads no stored state, catalogues
\* no item, computes no diff and no conflict report and asks nothing; it
\* hands every target element to the addition step (each one with imported
\* media is attempted, each accepted one is on the timeline), then
\* synchronizes the beat markers, then persists the state of all target
\* UIDs, and ends synchronized.
C17_NewTimelineFullSync ==
  /\ [](TimelineCreated =>
          /\ ~dry_run
          /\ stored_state = NoState /\ current_items = <<>> /\ conflicts = NoConflicts
          /\ ~changes.markers_to_sync /\ ChangeSetEmpty /\ answer = "none"
          /\ pc \in {"content", "markers", "persist", "done"}
          /\ PastAdditions =>
               /\ \A uid \in TargetUIDs \cap media_items :
                    Reported("added", uid) \/ Reported("not placed", uid)
               /\ \A uid \in TargetUIDs : Reported("added", uid) => OnTimeline(uid)
          /\ pc \in {"persist", "done"} => BeatMarkersOnTarget
          /\ pc = "done" => (outcome = "synchronized" /\ host.state = SyncState(TargetUIDs)))
  /\ [][(pc = "timeline" /\ ~host.timeline /\ ~dry_run) =>
          \/ pc' = "content" /\ host'.timeline /\ host'.items = <<>> /\ TimelineCreated'
          \/ pc' = "failed" /\ outcome' = "RuntimeError: Timeline creation failed"]_vars
  /\ [][(TimelineCreated /\ pc = "content") => (pc' = "markers" /\ ~host.state.present)]_vars
  /\ [][(TimelineCreated /\ pc = "markers") => (pc' = "persist" /\ ~host'.state.present)]_vars
  /\ [][(TimelineCreated /\ pc = "persist") => (pc' = "done" /\ host'.state.present)]_vars

\* C17 witness: a session created the timeline, added both elements, set
\* both beat markers and persisted the state.
C17_Witness ==
  /\ TimelineCreated /\ pc = "done" /\ outcome = "synchronized"
  /\ OnTimeline("a") /\ OnTimeline("s")
  /\ BeatMarkersOnTarget
  /\ host.state = SyncState(TargetUIDs)

\* ------------------------------------------- slot assignment, continued
\* the photo asked for a beat and got no anchored placement
PinRejected(photo, ps) ==
  /\ photo.anchor # NoAnchor
  /\ \A i \in 1..Len(ps) : ps[i].path = photo.path => ~ps[i].is_anchored

\* C18: in the returned list of a run that passed its checks, every photo of
\* the date range whose anchor was rejected has exactly one placement, and
\* that placement is not anchored.
C18_RejectedPinDistributed ==
  (apc = "done" /\ filtered_photos # <<>>) =>
    \A k \in 1..Len(filtered_photos) :
      PinRejected(filtered_photos[k], result) =>
        Cardinality(PlacementsOf(filtered_photos[k].path, result)) = 1

\* C19: in the returned list of a clustered run, placements with the same
\* cluster id have the same beat index, and every photo of a cluster that
\* has a placement has a placement itself.
C19_ClusterSharesBeat ==
  (apc = "done" /\ Clustered) =>
    /\ \A i, j \in 1..Len(result) :
         result[i].cluster_id = result[j].cluster_id =>
           result[i].beat_index = result[j].beat_index
    /\ \A i \in 1..Len(result) :
         LET cluster == clusters[result[i].cluster_id + 1]
         IN \A k \in 1..Len(cluster.photos) :
              PlacementsOf(cluster.photos[k].path, result) # {}

\* ---------------------------------------------------------------- clustering
\* the places (cluster, position) at which the photo of this path occurs
PlacesOf(path) ==
  {cp \in (1..Len(clusters)) \X (1..MaxPhotos) :
     cp[2] <= Len(clusters[cp[1]].photos) /\ clusters[cp[1]].photos[cp[2]].path = path}

\* C20: for each time gap (none, minimum gap, same period) and each photo
\* list sorted by date, the clusters returned hold every photo exactly once,
\* unchanged, and nothing else; no cluster is empty; the photos of a cluster
\* are in the order of the input; the clusters are in ascending order of the
\* earliest date of their photos.
C20_ClustersPartitionInput ==
  apc = "clusters" =>
    /\ \A k \in 1..Len(photos) :
         /\ Cardinality(PlacesOf(photos[k].path)) = 1
         /\ \A cp \in PlacesOf(photos[k].path) : clusters[cp[1]].photos[cp[2]] = photos[k]
    /\ \A c \in 1..Len(clusters) :
         /\ Len(clusters[c].photos) >= 1
         /\ \A i \in 1..Len(clusters[c].photos) :
              clusters[c].photos[i].path \in 1..Len(photos)
         /\ \A i, j \in 1..Len(clusters[c].photos) :
              i < j => clusters[c].photos[i].path < clusters[c].photos[j].path
    /\ \A c, d \in 1..Len(clusters) :
         c < d => SeqMin(PhotoDates(clusters[c].photos)) <= SeqMin(PhotoDates(clusters[d].photos))

\* C20 witness: three photos grouped by the same minute into a cluster of two
\* photos followed by a cluster of one.
C20_Witness ==
  /\ apc = "clusters" /\ time_gap.same_period_mode
  /\ Len(photos) = 3 /\ Len(clusters) = 2
  /\ Len(clusters[1].photos) = 2

\* the cluster (index) holding the photo with this path
ClusterOf(path) == CHOOSE c \in 1..Len(clusters) : \E cp \in PlacesOf(path) : cp[1] = c
SamePeriod(p, q) ==
  normalize_to_period_start(p.date, time_gap.unit)
    = normalize_to_period_start(q.date, time_gap.unit)

\* C21: with a same-period time gap, whatever its amount, two photos are in
\* the same cluster exactly when their dates normalize to the same period
\* start of the gap's unit.
C21_SamePeriodIffSameCluster ==
  (apc = "clusters" /\ time_gap.same_period_mode) =>
    \A i, j \in 1..Len(photos) :
      (ClusterOf(photos[i].path) = ClusterOf(photos[j].path))
        <=> SamePeriod(photos[i], photos[j])

StartsCluster(path) == \E c \in 1..Len(clusters) : clusters[c].photos[1].path = path
MinimumGapMode == ~time_gap.same_period_mode /\ time_gap.amount > 0

\* C22: with a minimum-gap time gap of a positive amount, the first photo
\* starts the first cluster and photo i > 1 starts a new cluster exactly when
\* the whole number of units between photo i-1 and photo i is at least the
\* amount; the distance to the first photo of the current cluster plays no
\* part.
C22_NewClusterIffGapFromPrevious ==
  (apc = "clusters" /\ MinimumGapMode) =>
    /\ clusters[1].photos[1] = photos[1]
    /\ \A i \in 2..Len(photos) :
         StartsCluster(photos[i].path)
           <=> (calculate_time_delta(photos[i - 1].date, photos[i].date, time_gap.unit)
                  >= time_gap.amount)

\* C22 witness: three photos chained into one cluster although the first and
\* the last are a full gap apart.
C22_Witness ==
  /\ apc = "clusters" /\ MinimumGapMode
  /\ Len(photos) = 3 /\ Len(clusters) = 1
  /\ calculate_time_delta(photos[1].date, photos[3].date, time_gap.unit) >= time_gap.amount

EffectiveRangeNonPositive == start_offset + end_offset >= beats_len

\* C23: when start_offset + end_offset >= len(beats), also when end_offset
\* alone exceeds len(beats), the run fails before slot assignment: no beat is
\* given to a photo and no placement is made or returned.
C23_NonPositiveRangeNoPlacement ==
  EffectiveRangeNonPositive =>
    /\ placements = <<>> /\ result = <<>>
    /\ apc \notin {"original_anchored", "original_distribute",
                   "cluster_anchored", "cluster_distribute"}

\* the removals and updates of the plan: Apply makes no host call for them
NotExecuted == changes.items_to_remove \cup changes.items_to_update

\* C24: once the changes are applied, every planned removal or update that
\* was not carried out on the host is in the report as skipped, with the UID
\* it concerns, and the timeline item of that UID is as it was catalogued.
C24_SkippedOperationsReported ==
  PastAdditions =>
    \A uid \in NotExecuted :
      /\ Reported("skipped", uid)
      /\ \E i \in 1..Len(host.items) : host.items[i] = current_items[uid]

\* C25: a stored record that lacks some keys or carries unknown ones is read
\* successfully: the state used by the analysis is present and holds the
\* managed UIDs of the record.
C25_IncompleteRecordIsRead ==
  (pc = "conflicts" /\ host.state.present /\ "managed_asset_uids" \in host.state.fields) =>
    /\ stored_state.present
    /\ stored_state.managed_asset_uids = host.state.managed_asset_uids

TaggedUIDs == {host.items[i].tag : i \in 1..Len(host.items)} \ {NoTag}
\* the item is more than half a frame away from where the element belongs on
\* this timeline, or its duration is more than half a frame off
Drifted(item, element) ==
  \/ Abs(item.start - HalfFrames(host.start_frame + element.start_frame)) > Tolerance
  \/ Abs(item.duration - HalfFrames(element.duration_frames)) > Tolerance

\* C26: the plan's additions are exactly the target UIDs without a tagged
\* item on the timeline, and its updates are exactly the UIDs with both a
\* tagged item and a target element whose start or duration is more than
\* half a frame off the target; an item within half a frame of its target in
\* both is never in the updates.
C26_PlanAdditionsAndUpdates ==
  pc = "conflicts" =>
    /\ changes.items_to_add = TargetUIDs \ TaggedUIDs
    /\ changes.items_to_update =
         {uid \in TargetUIDs \cap TaggedUIDs : Drifted(current_items[uid], target_elements[uid])}

BeatIndices(markers) == {markers[f].index : f \in {g \in Frames : markers[g].kind = "beat"}}

\* C27: the beat-marker step treats every tagged beat marker by its beat
\* index: a marker whose index is not a target index is deleted; a marker
\* more than half a frame from the target frame of its index is deleted and
\* a marker is added for the index; a marker within half a frame is left as
\* it is; a marker is added for every target index without a marker; and
\* when every tagged marker is in place the step makes no call.
C27_MarkersComparedByIndex ==
  [][pc = "markers" =>
       /\ \A f \in Frames :
            LET m == host.markers[f]
            IN m.kind = "beat" =>
                 IF m.index \notin DOMAIN target_markers
                 THEN host'.markers[f] # m
                 ELSE IF Abs(f - target_markers[m.index]) > 0
                 THEN host'.markers[f] # m /\ "AddMarker" \in calls'
                 ELSE host'.markers[f] = m
       /\ (DOMAIN target_markers \ BeatIndices(host.markers) # {}) => "AddMarker" \in calls'
       /\ (\A f \in Frames :
             /\ host.markers[f].kind # "malformed"
             /\ host.markers[f].kind = "beat" =>
                  /\ host.markers[f].index \in DOMAIN target_markers
                  /\ target_markers[host.markers[f].index] = f)
            /\ DOMAIN target_markers \subseteq BeatIndices(host.markers)
          => calls' = calls]_vars

ProjectCreated ==
  \/ /\ pc' = "settings" /\ host' = EmptyProject /\ "CreateProject" \in calls'
     /\ UNCHANGED outcome
  \/ /\ pc' = "failed" /\ ~host'.project /\ "CreateProject" \notin calls'
     /\ outcome' = "RuntimeError: Project creation failed"

\* C28: locating the project leaves an existing project and the host exactly
\* as they are when recreate is unset; makes a new empty project when none
\* exists, without deleting anything; deletes the existing project and makes
\* a new empty one when recreate is set (the session fails when the host
\* makes none); and no session without recreate ever deletes a project.
C28_ResolveProject ==
  /\ []("DeleteProject" \in calls => recreate)
  /\ [][pc = "project" =>
          IF host.project /\ ~recreate
          THEN pc' = "settings" /\ host' = host /\ calls' = calls /\ UNCHANGED outcome
          ELSE IF ~host.project
          THEN "DeleteProject" \notin calls' /\ ProjectCreated
          ELSE "DeleteProject" \in calls' /\ ProjectCreated]_vars

\* C28 witness: a session with recreate found the project with its timeline,
\* deleted it and went on with a new empty project.
C28_Witness ==
  /\ pc = "settings" /\ recreate
  /\ host_at_start.project /\ host_at_start.timeline
  /\ {"DeleteProject", "CreateProject"} \subseteq calls
  /\ host = EmptyProject

\* the k-th slot the search looks at: left of the preferred slot on odd
\* steps, right of it on even steps, one slot further every second step
Cand(p, k) == IF k % 2 = 1 THEN p - ((k + 1) \div 2) ELSE p + (k \div 2)
CandFree(p, k) == InEffectiveRange(Cand(p, k)) /\ ~beat_occupied[Cand(p, k)]
FirstFree(p, steps) ==
  CHOOSE k \in 1..steps : CandFree(p, k) /\ \A j \in 1..(k - 1) : ~CandFree(p, j)
\* the unit of this step has a new placement at the slot, not pinned
AssignedTo(slot) ==
  /\ beat_occupied' = [beat_occupied EXCEPT ![slot] = TRUE]
  /\ Len(placements') > Len(placements)
  /\ \A i \in (Len(placements) + 1)..Len(placements') :
       placements'[i].beat_index = slot /\ ~placements'[i].is_anchored
NotAssigned == beat_occupied' = beat_occupied /\ placements' = placements
\* a step of the chronological pass whose preferred slot is occupied
SearchStep(p) ==
  /\ \/ apc = "original_distribute" /\ p = preferred_beat(Head(work).date)
     \/ /\ apc = "cluster_distribute"
        /\ p = preferred_beat(representative_date(clusters[Head(work) + 1]))
  /\ beat_occupied[p]

RejectionReason(photo) ==
  IF InEffectiveRange(beat_index_of(photo.anchor))
  THEN "already occupied" ELSE "outside effective range"

\* C30: once the pin pass is over, with or without clustering, every photo
\* of the date range whose anchor was not honoured has a warning that names
\* the photo and says whether its beat was outside the effective range or
\* already occupied.
C30_RejectedPinDiagnosed ==
  PinPassDone =>
    \A k \in 1..Len(filtered_photos) :
      PinRejected(filtered_photos[k], placements) =>
        [path |-> filtered_photos[k].path, reason |-> RejectionReason(filtered_photos[k])]
          \in warnings

\* C31: in a clustered run, once the pin pass is over, when a photo of a
\* cluster is pinned at the beat of its anchor, every other photo of that
\* cluster with the same anchor is pinned at that beat too.
C31_SharedPinBothPlaced ==
  (Clustered /\ PinPassDone) =>
    \A c \in 1..Len(clusters) :
      \A i, j \in 1..Len(clusters[c].photos) :
        LET p == clusters[c].photos[i]
            q == clusters[c].photos[j]
        IN (p.anchor # NoAnchor /\ q.anchor = p.anchor /\ PinnedAt(p, placements))
             => PinnedAt(q, placements)

NewPlacements == {placements'[i] : i \in (Len(placements) + 1)..Len(placements')}

\* C32: in every step of an assignment run, a beat that is marked occupied
\* stays marked, and a beat that becomes marked in the step has a placement
\* added to the list in that same step.
C32_OccupancyMonotone ==
  [][\A b \in DOMAIN beat_occupied :
       /\ beat_occupied[b] => beat_occupied'[b]
       /\ (~beat_occupied[b] /\ beat_occupied'[b]) =>
            \E placement \in NewPlacements : placement.beat_index = b]_vars

\* C32 witness: a clustered run ended with a pinned beat and a beat given by
\* the chronological pass, both marked occupied.
C32_Witness ==
  /\ apc = "done" /\ Clustered
  /\ \E i, j \in 1..Len(result) :
       /\ result[i].is_anchored /\ ~result[j].is_anchored
       /\ beat_occupied[result[i].beat_index] /\ beat_occupied[result[j].beat_index]

\* C33: the conflict report of a session lists exactly the timeline items
\* without a "beatspine:" tag and exactly the markers without one; no tagged
\* item and no tagged marker is in it.
C33_ConflictsAreTheUntagged ==
  pc = "conflicts" =>
    /\ conflicts.unmanaged_items = Untagged(host.items)
    /\ conflicts.manual_markers = ManualFrames(host.markers)
    /\ \A i \in conflicts.unmanaged_items : host.items[i].tag \notin UIDs
    /\ \A f \in conflicts.manual_markers : ~MarkerTagged(host.markers[f])

\* C33 witness: the analysis of a timeline with an untagged item and a tagged
\* beat marker reported the item and not the marker.
C33_Witness ==
  /\ pc = "conflicts"
  /\ conflicts.unmanaged_items # {} /\ conflicts.manual_markers = {}
  /\ \E f \in Frames : host.markers[f].kind = "beat"

\* the timestamp of the unit a placement of the chronological pass belongs to
UnitDate(placement) ==
  IF Clustered THEN representative_date(clusters[placement.cluster_id + 1])
  ELSE placement.date

\* C34: in the returned list of a run without any anchor, a placement of a
\* unit with a strictly earlier timestamp (the representative date for a
\* cluster) never has a later beat than a placement of a unit with a later
\* timestamp.
C34_ChronologicalOrder ==
  (apc = "done" /\ \A k \in 1..Len(photos) : photos[k].anchor = NoAnchor) =>
    \A i, j \in 1..Len(result) :
      UnitDate(result[i]) < UnitDate(result[j])
        => result[i].beat_index <= result[j].beat_index

OnlyTargetBeatMarkers ==
  \A f \in Frames :
    MarkerTagged(host.markers[f]) =>
      \E i \in DOMAIN target_markers :
        target_markers[i] = f /\ host.markers[f] = Marker("beat", i)

\* C35: when the beat-marker step of a session is over on a timeline that
\* held tagged markers only, in any layout, the tagged markers of the
\* timeline are exactly one per beat of the project, each on the frame of its
\* beat; and the beat-marker step of a session that follows a synchronized
\* one makes no marker call.
C35_MarkersOnTargetAfterSync ==
  /\ [](((pc = "persist") /\ ManualFrames(host_at_start.markers) = {})
          => (BeatMarkersOnTarget /\ OnlyTargetBeatMarkers))
  /\ [][(pc = "markers" /\ previous_outcome = "synchronized"
           /\ ManualFrames(host.markers) = {})
          => calls' \cap {"AddMarker", "DeleteMarkerAtFrame"} = {}]_vars

\* the plan a session computes on the timeline of host h
PlanOf(h) ==
  compute_differential_changes(catalog_current_items(h), target_elements,
                               extract_managed_state(h))
TaggedOnTimeline(h, uid) == \E i \in 1..Len(h.items) : h.items[i].tag = uid

\* C36: no step that applies a session's plan makes later plans drop a
\* removal of that plan: while an item with the tag is still on the timeline
\* after the step, the plan computed on the host as the step leaves it holds
\* the removal too.
C36_RemovalStaysPlanned ==
  [][Applying =>
       \A uid \in changes.items_to_remove :
         TaggedOnTimeline(host', uid) => uid \in PlanOf(host').items_to_remove]_vars

\* C37: in every plan of a differential session the UIDs of the additions, of
\* the removals and of the updates are pairwise disjoint.
C37_PlanSetsDisjoint ==
  Planned =>
    /\ changes.items_to_add \cap changes.items_to_remove = {}
    /\ changes.items_to_add \cap changes.items_to_update = {}
    /\ changes.items_to_remove \cap changes.items_to_update = {}
\* a plan with an addition and an update of a managed item
C37_Witness ==
  /\ pc = "conflicts"
  /\ changes.items_to_add # {}
  /\ changes.items_to_update \cap host.state.managed_asset_uids # {}

\* C38: the duration of the assembled TimelineProject is (soundtrack duration
\* + gap) in milliseconds for every list of placements, a non-empty one
\* included: building the photo elements does not change it.
C38_ProjectDurationIsSoundtrackPlusGap ==
  timeline_project.built =>
    timeline_project.duration
      = (soundtrack.duration_sec + soundtrack.gap_sec) * MsPerSecond

\* C39: when the date range has no positive length while photos lie in it
\* (they all carry the one date of the range, as a single photo without an
\* explicit range does), no beat is ever marked occupied and no placement is
\* made or returned, and once the checks have run the run has ended in the
\* invalid-time-span error.
C39_ZeroTimespanIsFatal ==
  (end_date - start_date <= 0 /\ filtered_photos # <<>>) =>
    /\ NothingAssigned
    /\ PastChecks => apc = "error_timespan"
\* C39 witness: a single photo without an explicit date range, after the check
C39_Witness ==
  /\ apc = "error_timespan"
  /\ Len(photos) = 1 /\ Len(filtered_photos) = 1
  /\ start_date = photos[1].date /\ end_date = photos[1].date
  /\ num_effective_beats >= 1

====
